---- MODULE Spec2Model ----
(***************************************************************************)
(* A model of app/utils/folder_tree/manager.py: the recursive engine that  *)
(* creates, validates, tears down, renders and flattens a directory/file   *)
(* layout described by a nested mapping.                                   *)
(*                                                                         *)
(* Strings are sequences of one-character strings, so that str lengths,    *)
(* startswith("_") and the key synthesis of get_flat_path_map are computed *)
(* and not assumed.  A path is the sequence of its components below "/".   *)
(* A dict is the sequence of its items in insertion order.                 *)
(***************************************************************************)
EXTENDS Integers, Sequences, FiniteSets, TLC

VARIABLES structure, fs, denied, pc, paths_to_delete, last

vars == <<structure, fs, denied, pc, paths_to_delete, last>>

----------------------------------------------------------------------------
(* Bounds of the model.                                                    *)

\* a tree structure has at most MaxNodes keys, all levels together
MaxNodes == 3

\* the filesystem the program starts on has at most MaxFsEntries entries
\* below the base directory
MaxFsEntries == 3

----------------------------------------------------------------------------
(* Values of a tree structure.                                             *)

NoneValue == [t |-> "none", s |-> "", n |-> 0, items |-> <<>>]

StrValue(s) == [t |-> "str", s |-> s, n |-> 0, items |-> <<>>]

IntValue(n) == [t |-> "int", s |-> "", n |-> n, items |-> <<>>]

DictValue(items) == [t |-> "dict", s |-> "", n |-> 0, items |-> items]

\* isinstance(value, dict)
IsDict(value) == value.t = "dict"

KeyA == <<"a">>

KeyAA == <<"a", "_", "a">>

KeyPerms == <<"_", "p", "e", "r", "m", "s">>

Keys == {KeyA, KeyAA, KeyPerms}

\* a slip: the key is compared with "_" instead of its first character
IsUnderscore(key) == key = <<"_">>

\* key.startswith("_")
StartsWithUnderscore(key) == Len(key) > 0 /\ key[1] = "_"

\* the scalar value a key is given in the structures explored: "a" is an
\* empty file (None), "a_a" a file with content, "_perms" a mode (0o700)
ScalarsOf(key) ==
    IF key = KeyPerms THEN {IntValue(448)}
    ELSE IF key = KeyA THEN {NoneValue}
    ELSE {StrValue("hello")}

DictKeys(items) == {items[i].k : i \in 1..Len(items)}

\* the dicts with exactly n keys, all levels together; the keys of one
\* mapping are distinct
RECURSIVE Forests(_)
Forests(n) ==
    IF n = 0 THEN {<<>>}
    ELSE UNION {
           UNION {
             LET firsts == IF m = 1
                           THEN ScalarsOf(key) \cup {DictValue(<<>>)}
                           ELSE {DictValue(f) : f \in Forests(m - 1)}
             IN  {<<[k |-> key, v |-> value]>> \o rest :
                    value \in firsts,
                    rest \in {r \in Forests(n - m) : key \notin DictKeys(r)}}
             : key \in Keys}
           : m \in 1..n}

Structures == UNION {Forests(n) : n \in 0..MaxNodes}

----------------------------------------------------------------------------
(* Paths.                                                                  *)

Dot == <<".">>

DotDot == <<".", ".">>

\* Path(s).resolve() on a path without symbolic links: "." and ".." are
\* folded away; expandvars and expanduser leave a path without "$" and
\* without a leading "~" as it is
RECURSIVE Normalize(_, _)
Normalize(done, todo) ==
    IF todo = <<>> THEN done
    ELSE LET c == Head(todo)
         IN  IF c = Dot THEN Normalize(done, Tail(todo))
             ELSE IF c = DotDot
                  THEN Normalize(IF done = <<>> THEN <<>>
                                 ELSE SubSeq(done, 1, Len(done) - 1), Tail(todo))
                  ELSE Normalize(Append(done, c), Tail(todo))

_resolve_path(path) == Normalize(<<>>, path)

\* the base path the caller passes: "/tmp/../x"
BasePath == <<<<"t", "m", "p">>, DotDot, <<"x">>>>

\* current_base / key
Join(path, key) == Append(path, key)

Parent(path) == IF path = <<>> THEN <<>> ELSE SubSeq(path, 1, Len(path) - 1)

\* len(str(p)) of an absolute path: "/" and the name, for every component
RECURSIVE StrLen(_)
StrLen(path) ==
    IF path = <<>> THEN 1
    ELSE IF Len(path) = 1 THEN 1 + Len(path[1])
    ELSE StrLen(Parent(path)) + 1 + Len(path[Len(path)])

\* q lies beneath p
IsBeneath(q, p) == Len(q) > Len(p) /\ SubSeq(q, 1, Len(p)) = p

----------------------------------------------------------------------------
(* The local filesystem behind pathlib and os.                             *)
(* fs maps every existing path to its node; "/" always exists.  denied is  *)
(* the set of paths on which the operating system refuses a change         *)
(* (PermissionError); a change is also refused where the kind of an        *)
(* existing entry forbids it.                                              *)

DirNode == [kind |-> "dir", content |-> "", mode |-> 493]

FileNode(content) == [kind |-> "file", content |-> content, mode |-> 420]

\* p.exists()
Exists(f, p) == p = <<>> \/ p \in DOMAIN f

\* p.is_dir()
IsDir(f, p) == p = <<>> \/ (p \in DOMAIN f /\ f[p].kind = "dir")

\* p.is_file()
IsFile(f, p) == p \in DOMAIN f /\ f[p].kind = "file"

Put(f, p, node) == [q \in DOMAIN f \cup {p} |-> IF q = p THEN node ELSE f[q]]

Drop(f, p) == [q \in DOMAIN f \ {p} |-> f[q]]

HasChildren(f, p) == \E q \in DOMAIN f : Len(q) > 0 /\ Parent(q) = p

\* one call of the backend, and whether it went through
Call(op, p, ok) == [op |-> op, path |-> p, ok |-> ok]

\* p.mkdir(parents=True, exist_ok=True)
RECURSIVE Mkdir(_, _)
Mkdir(f, p) ==
    IF IsDir(f, p) THEN [ok |-> TRUE, fs |-> f]
    ELSE IF Exists(f, p) THEN [ok |-> FALSE, fs |-> f]
    ELSE LET up == Mkdir(f, Parent(p))
         IN  IF ~up.ok THEN up
             ELSE IF p \in denied THEN [ok |-> FALSE, fs |-> up.fs]
             ELSE [ok |-> TRUE, fs |-> Put(up.fs, p, DirNode)]

\* os.chmod(p, perms)
Chmod(f, p, perms) ==
    IF ~Exists(f, p) \/ p \in denied \/ p = <<>> THEN [ok |-> FALSE, fs |-> f]
    ELSE [ok |-> TRUE, fs |-> Put(f, p, [f[p] EXCEPT !.mode = perms])]

\* with open(p, "w") as fh: fh.write(content)
WriteFile(f, p, content) ==
    IF IsDir(f, p) \/ ~IsDir(f, Parent(p)) \/ p \in denied
    THEN [ok |-> FALSE, fs |-> f]
    ELSE IF IsFile(f, p)
    THEN [ok |-> TRUE, fs |-> Put(f, p, [f[p] EXCEPT !.content = content])]
    ELSE [ok |-> TRUE, fs |-> Put(f, p, FileNode(content))]

\* p.unlink()
Unlink(f, p) ==
    IF ~IsFile(f, p) \/ p \in denied THEN [ok |-> FALSE, fs |-> f]
    ELSE [ok |-> TRUE, fs |-> Drop(f, p)]

\* p.rmdir(): only an empty directory is removed
Rmdir(f, p) ==
    IF ~IsDir(f, p) \/ p = <<>> \/ HasChildren(f, p) \/ p \in denied
    THEN [ok |-> FALSE, fs |-> f]
    ELSE [ok |-> TRUE, fs |-> Drop(f, p)]

----------------------------------------------------------------------------
(* create_folder_tree                                                      *)

\* "_perms" in value, value["_perms"]
HasKey(items, key) == \E i \in 1..Len(items) : items[i].k = key

Lookup(items, key) == items[CHOOSE i \in 1..Len(items) : items[i].k = key].v

\* content = value if isinstance(value, str) and value not in ("file", "") else ""
FileContent(value) ==
    IF value.t = "str" /\ value.s \notin {"file", ""} THEN value.s ELSE ""

PathResult(p) == [t |-> "path", p |-> p, items |-> <<>>]

DictResult(items) == [t |-> "dict", p |-> <<>>, items |-> items]

\* raise FolderTreeError(...) for the path that could not be created
Raised(f, p, calls) ==
    [fs |-> f, result_paths |-> <<>>, raised |-> TRUE, failed |-> p, calls |-> calls]

\* the folder branch of the try block: mkdir, then chmod when "_perms" is an int
MakeFolder(acc, current_path, value) ==
    LET mk == Mkdir(acc.fs, current_path)
        calls1 == Append(acc.calls, Call("mkdir", current_path, mk.ok))
    IN  IF ~mk.ok THEN Raised(mk.fs, current_path, calls1)
        ELSE IF HasKey(value.items, KeyPerms) /\ Lookup(value.items, KeyPerms).t = "int"
        THEN LET ch == Chmod(mk.fs, current_path, Lookup(value.items, KeyPerms).n)
                 calls2 == Append(calls1, Call("chmod", current_path, ch.ok))
             IN  IF ~ch.ok THEN Raised(ch.fs, current_path, calls2)
                 ELSE [acc EXCEPT !.fs = ch.fs, !.calls = calls2]
        ELSE [acc EXCEPT !.fs = mk.fs, !.calls = calls1]

\* a slip: the file is written whether or not it exists
MakeFileAlways(acc, current_path, value, overwrite) ==
    LET mk == Mkdir(acc.fs, Parent(current_path))
        calls1 == Append(acc.calls, Call("mkdir", Parent(current_path), mk.ok))
        wr == WriteFile(mk.fs, current_path, FileContent(value))
        calls2 == Append(calls1, Call("write", current_path, wr.ok))
    IN  IF ~mk.ok THEN Raised(mk.fs, current_path, calls1)
        ELSE IF ~wr.ok THEN Raised(wr.fs, current_path, calls2)
        ELSE [acc EXCEPT !.fs = wr.fs, !.calls = calls2]

\* the file branch of the try block: parent mkdir, then the write unless the
\* file exists and overwrite is false
MakeFile(acc, current_path, value, overwrite) ==
    LET mk == Mkdir(acc.fs, Parent(current_path))
        calls1 == Append(acc.calls, Call("mkdir", Parent(current_path), mk.ok))
    IN  IF ~mk.ok THEN Raised(mk.fs, current_path, calls1)
        ELSE IF ~Exists(mk.fs, current_path) \/ overwrite
        THEN LET wr == WriteFile(mk.fs, current_path, FileContent(value))
                 calls2 == Append(calls1, Call("write", current_path, wr.ok))
             IN  IF ~wr.ok THEN Raised(wr.fs, current_path, calls2)
                 ELSE [acc EXCEPT !.fs = wr.fs, !.calls = calls2]
        ELSE [acc EXCEPT !.fs = mk.fs, !.calls = calls1]

RECURSIVE create_folder_tree(_, _, _, _, _)
RECURSIVE CreateItems(_, _, _, _, _, _)

\* a slip: the error of an entry is kept for the end of the loop, which
\* goes on with the entries after it
CreateItemsContinue(acc, base, struct, i, overwrite, dry_run) ==
    IF i > Len(struct) THEN acc
    ELSE LET key == struct[i].k
             value == struct[i].v
             current_path == Join(base, key)
             is_folder == IsDict(value)
             made == IF dry_run THEN acc
                     ELSE IF is_folder THEN MakeFolder(acc, current_path, value)
                     ELSE MakeFile(acc, current_path, value, overwrite)
             sub_results == create_folder_tree(
                     made.fs, current_path, value.items, overwrite, dry_run)
             entry == IF is_folder
                      THEN [made EXCEPT
                              !.fs = sub_results.fs,
                              !.calls = made.calls \o sub_results.calls,
                              !.raised = sub_results.raised,
                              !.failed = sub_results.failed,
                              !.result_paths = Append(@,
                                 [k |-> key, v |-> DictResult(sub_results.result_paths)])]
                      ELSE [made EXCEPT !.result_paths =
                              Append(@, [k |-> key, v |-> PathResult(current_path)])]
             after == IF made.raised THEN made ELSE entry
             rest == CreateItems([after EXCEPT !.raised = FALSE],
                                 base, struct, i + 1, overwrite, dry_run)
         IN  IF StartsWithUnderscore(key)
             THEN CreateItems(acc, base, struct, i + 1, overwrite, dry_run)
             ELSE IF after.raised
             THEN [rest EXCEPT !.raised = TRUE, !.failed = after.failed,
                               !.result_paths = <<>>]
             ELSE rest

\* the for loop of create_folder_tree from item i on
CreateItems(acc, base, struct, i, overwrite, dry_run) ==
    IF i > Len(struct) THEN acc
    ELSE LET key == struct[i].k
             value == struct[i].v
             current_path == Join(base, key)
             is_folder == IsDict(value)
             made == IF dry_run THEN acc
                     ELSE IF is_folder THEN MakeFolder(acc, current_path, value)
                     ELSE MakeFile(acc, current_path, value, overwrite)
         IN  IF StartsWithUnderscore(key)
             THEN CreateItems(acc, base, struct, i + 1, overwrite, dry_run)
             ELSE IF made.raised THEN made
             ELSE IF is_folder
             THEN LET sub_results == create_folder_tree(
                          made.fs, current_path, value.items, overwrite, dry_run)
                      calls1 == made.calls \o sub_results.calls
                  IN  IF sub_results.raised
                      THEN Raised(sub_results.fs, sub_results.failed, calls1)
                      ELSE CreateItems(
                             [made EXCEPT
                                !.fs = sub_results.fs,
                                !.calls = calls1,
                                !.result_paths = Append(@,
                                   [k |-> key, v |-> DictResult(sub_results.result_paths)])],
                             base, struct, i + 1, overwrite, dry_run)
             ELSE CreateItems(
                    [made EXCEPT !.result_paths =
                        Append(@, [k |-> key, v |-> PathResult(current_path)])],
                    base, struct, i + 1, overwrite, dry_run)

\* a slip: the base directory is made in a dry run too
create_folder_tree_eager(f, base_path, struct, overwrite, dry_run) ==
    LET base == _resolve_path(base_path)
        mk == Mkdir(f, base)
        calls0 == <<Call("mkdir", base, mk.ok)>>
    IN  IF ~mk.ok THEN Raised(mk.fs, base, calls0)
        ELSE CreateItems(
               [fs |-> mk.fs, result_paths |-> <<>>, raised |-> FALSE,
                failed |-> <<>>, calls |-> calls0],
               base, struct, 1, overwrite, dry_run)

create_folder_tree(f, base_path, struct, overwrite, dry_run) ==
    LET base == _resolve_path(base_path)
        mk == IF dry_run THEN [ok |-> TRUE, fs |-> f] ELSE Mkdir(f, base)
        calls0 == IF dry_run THEN <<>> ELSE <<Call("mkdir", base, mk.ok)>>
    IN  IF ~mk.ok THEN Raised(mk.fs, base, calls0)
        ELSE CreateItems(
               [fs |-> mk.fs, result_paths |-> <<>>, raised |-> FALSE,
                failed |-> <<>>, calls |-> calls0],
               base, struct, 1, overwrite, dry_run)

----------------------------------------------------------------------------
(* generate_tree_summary                                                   *)
(* The summary is the sequence of its lines; a line is its indent (one     *)
(* unit per level), its connector and its key.  The box-drawing characters *)
(* are written "|" and "L".                                                *)

\* items = {k: v for k, v in structure.items() if not k.startswith("_")}
RECURSIVE FilterItems(_)
FilterItems(struct) ==
    IF struct = <<>> THEN <<>>
    ELSE IF StartsWithUnderscore(Head(struct).k) THEN FilterItems(Tail(struct))
    ELSE <<Head(struct)>> \o FilterItems(Tail(struct))

RECURSIVE generate_tree_summary(_, _, _)
RECURSIVE SummaryLines(_, _, _)

\* the for loop of generate_tree_summary from item i on
SummaryLines(items, indent, i) ==
    IF i > Len(items) THEN <<>>
    ELSE LET key == items[i].k
             value == items[i].v
             is_last_item == (i = Len(items))
             connector == IF is_last_item THEN "L-- " ELSE "|-- "
             new_indent == Append(indent, IF is_last_item THEN "    " ELSE "|   ")
         IN  <<[indent |-> indent, connector |-> connector, key |-> key]>>
             \o (IF IsDict(value)
                 THEN generate_tree_summary(value.items, new_indent, is_last_item)
                 ELSE <<>>)
             \o SummaryLines(items, indent, i + 1)

\* is_last is the parameter "last", which the function never reads
generate_tree_summary(struct, indent, is_last) ==
    SummaryLines(FilterItems(struct), indent, 1)

----------------------------------------------------------------------------
(* get_flat_path_map                                                       *)
(* The flat map is the sequence of its (key, path) items in insertion      *)
(* order, as the dict keeps them.                                          *)

\* a slip: a known key keeps its value
SetItemKeepFirst(flat_map, key, path) ==
    IF \E i \in 1..Len(flat_map) : flat_map[i].k = key
    THEN flat_map
    ELSE Append(flat_map, [k |-> key, v |-> path])

\* flat_map[key] = path: a known key keeps its place and takes the new value
SetItem(flat_map, key, path) ==
    IF \E i \in 1..Len(flat_map) : flat_map[i].k = key
    THEN [i \in 1..Len(flat_map) |->
            IF flat_map[i].k = key THEN [k |-> key, v |-> path] ELSE flat_map[i]]
    ELSE Append(flat_map, [k |-> key, v |-> path])

\* flat_map.update(child_map)
RECURSIVE Update(_, _)
Update(flat_map, child_map) ==
    IF child_map = <<>> THEN flat_map
    ELSE Update(SetItem(flat_map, Head(child_map).k, Head(child_map).v), Tail(child_map))

RECURSIVE get_flat_path_map(_, _, _, _)
RECURSIVE FlatItems(_, _, _, _, _, _)

\* the for loop of get_flat_path_map from item i on
FlatItems(flat_map, base, struct, separator, parent_key, i) ==
    IF i > Len(struct) THEN flat_map
    ELSE LET key == struct[i].k
             value == struct[i].v
             full_key == IF parent_key # <<>> THEN parent_key \o separator \o key ELSE key
             current_path == Join(base, key)
             added == SetItem(flat_map, full_key, current_path)
         IN  IF StartsWithUnderscore(key)
             THEN FlatItems(flat_map, base, struct, separator, parent_key, i + 1)
             ELSE IF IsDict(value)
             THEN FlatItems(
                    Update(added, get_flat_path_map(current_path, value.items, separator, full_key)),
                    base, struct, separator, parent_key, i + 1)
             ELSE FlatItems(added, base, struct, separator, parent_key, i + 1)

get_flat_path_map(base_path, struct, separator, parent_key) ==
    FlatItems(<<>>, _resolve_path(base_path), struct, separator, parent_key, 1)

----------------------------------------------------------------------------
(* validate_folder_tree                                                    *)

\* a slip: every key is joined to the base path, whatever its level
RECURSIVE _check_from_base(_, _, _)
_check_from_base(f, current_base, sub_struct) ==
    IF sub_struct = <<>> THEN <<>>
    ELSE LET key == Head(sub_struct).k
             value == Head(sub_struct).v
             p == Join(_resolve_path(BasePath), key)
         IN  IF StartsWithUnderscore(key)
             THEN _check_from_base(f, current_base, Tail(sub_struct))
             ELSE (IF ~Exists(f, p) THEN <<p>> ELSE <<>>)
                  \o (IF IsDict(value) THEN _check_from_base(f, p, value.items) ELSE <<>>)
                  \o _check_from_base(f, current_base, Tail(sub_struct))

\* a slip: a directory that is missing is not looked into
RECURSIVE _check_shallow(_, _, _)
_check_shallow(f, current_base, sub_struct) ==
    IF sub_struct = <<>> THEN <<>>
    ELSE LET key == Head(sub_struct).k
             value == Head(sub_struct).v
             p == Join(current_base, key)
         IN  IF StartsWithUnderscore(key)
             THEN _check_shallow(f, current_base, Tail(sub_struct))
             ELSE (IF ~Exists(f, p) THEN <<p>>
                   ELSE IF IsDict(value) THEN _check_shallow(f, p, value.items)
                   ELSE <<>>)
                  \o _check_shallow(f, current_base, Tail(sub_struct))

\* _check: the missing paths of sub_struct under current_base, in the order
\* they are appended
RECURSIVE _check(_, _, _)
_check(f, current_base, sub_struct) ==
    IF sub_struct = <<>> THEN <<>>
    ELSE LET key == Head(sub_struct).k
             value == Head(sub_struct).v
             p == Join(current_base, key)
         IN  IF StartsWithUnderscore(key) THEN _check(f, current_base, Tail(sub_struct))
             ELSE (IF ~Exists(f, p) THEN <<p>> ELSE <<>>)
                  \o (IF IsDict(value) THEN _check(f, p, value.items) ELSE <<>>)
                  \o _check(f, current_base, Tail(sub_struct))

\* missing[:5]
FirstFive(missing) == SubSeq(missing, 1, IF Len(missing) < 5 THEN Len(missing) ELSE 5)

validate_folder_tree(f, base_path, struct) ==
    LET base == _resolve_path(base_path)
        missing == _check(f, base, struct)
    IN  IF ~Exists(f, base)
        THEN [returned |-> FALSE, raised |-> TRUE, error |-> "FolderTreeError",
              missing |-> <<>>, count |-> 0, shown |-> <<>>]
        ELSE IF missing # <<>>
        THEN [returned |-> FALSE, raised |-> TRUE, error |-> "ValidationError",
              missing |-> missing, count |-> Len(missing), shown |-> FirstFive(missing)]
        ELSE [returned |-> TRUE, raised |-> FALSE, error |-> "",
              missing |-> <<>>, count |-> 0, shown |-> <<>>]

----------------------------------------------------------------------------
(* cleanup_folder_tree                                                     *)

\* _collect: every path of sub_struct under current_base, in traversal order
RECURSIVE _collect(_, _)
_collect(current_base, sub_struct) ==
    IF sub_struct = <<>> THEN <<>>
    ELSE LET key == Head(sub_struct).k
             value == Head(sub_struct).v
             p == Join(current_base, key)
         IN  IF StartsWithUnderscore(key) THEN _collect(current_base, Tail(sub_struct))
             ELSE <<p>>
                  \o (IF IsDict(value) THEN _collect(p, value.items) ELSE <<>>)
                  \o _collect(current_base, Tail(sub_struct))

\* the place of p in a list sorted by descending len(str(p)): behind every
\* path that is at least as long (the sort is stable)
RECURSIVE InsertByLen(_, _)
InsertByLen(sorted, p) ==
    IF sorted = <<>> THEN <<p>>
    ELSE IF StrLen(Head(sorted)) >= StrLen(p)
    THEN <<Head(sorted)>> \o InsertByLen(Tail(sorted), p)
    ELSE <<p>> \o sorted

\* a slip: the list is left in the order of the traversal
Unsorted(paths) == paths

\* paths.sort(key=lambda p: len(str(p)), reverse=True)
RECURSIVE SortByLenDesc(_)
SortByLenDesc(paths) ==
    IF paths = <<>> THEN <<>>
    ELSE InsertByLen(SortByLenDesc(SubSeq(paths, 1, Len(paths) - 1)), paths[Len(paths)])

\* one turn of the deletion loop on path p
RemoveOne(f, p) ==
    LET un == Unlink(f, p)
        rm == Rmdir(f, p)
    IN  IF ~Exists(f, p) THEN [attempted |-> "", ok |-> TRUE, fs |-> f]
        ELSE IF IsFile(f, p)
        THEN [attempted |-> "unlink", ok |-> un.ok, fs |-> un.fs]
        ELSE IF IsDir(f, p)
        THEN [attempted |-> "rmdir", ok |-> rm.ok, fs |-> rm.fs]
        ELSE [attempted |-> "", ok |-> TRUE, fs |-> f]

----------------------------------------------------------------------------
(* The filesystems the program is started on.                              *)

\* the resolved base directory, "/x"
Base == _resolve_path(BasePath)

FsNames == {KeyA}

\* the paths below the base directory, at most depth names deep
RECURSIVE PathsBelow(_, _)
PathsBelow(p, depth) ==
    IF depth = 0 THEN {}
    ELSE UNION {{Join(p, name)} \cup PathsBelow(Join(p, name), depth - 1) : name \in FsNames}

\* every entry lies in a directory
Consistent(f) ==
    \A p \in DOMAIN f : Len(p) = 0 \/ Len(p) = 1 \/ IsDir(f, Parent(p))

\* no base directory, a file in its place, or a directory holding at most
\* MaxFsEntries entries; files hold "old"
InitFs ==
    {<<>>, Put(<<>>, Base, FileNode("old"))}
    \cup {f \in UNION {[{Base} \cup S -> {DirNode, FileNode("old")}] :
                         S \in {T \in SUBSET PathsBelow(Base, MaxFsEntries) :
                                  Cardinality(T) <= MaxFsEntries}} :
            f[Base] = DirNode /\ Consistent(f)}

\* the path whose every change the operating system refuses where it
\* refuses any: "/x/a/a"
RefusedPath == Join(Join(Base, KeyA), KeyA)

----------------------------------------------------------------------------
(* The state machine: one caller, one call at a time.                      *)

NoOut == [raised |-> FALSE]

Record(op, overwrite, dry_run, confirm, separator, before, out, calls) ==
    [op |-> op, overwrite |-> overwrite, dry_run |-> dry_run, confirm |-> confirm,
     separator |-> separator, before |-> before, out |-> out, calls |-> calls]

Init ==
    /\ structure \in Structures
    /\ fs \in InitFs
    /\ denied = {}
    /\ pc = "idle"
    /\ paths_to_delete = <<>>
    /\ last = Record("", FALSE, FALSE, FALSE, <<>>, fs, NoOut, <<>>)

\* create_folder_tree(base_path, structure, overwrite, dry_run)
Create(overwrite, dry_run) ==
    /\ pc = "idle"
    /\ \E r \in {create_folder_tree(fs, BasePath, structure, overwrite, dry_run)} :
           /\ fs' = r.fs
           /\ last' = Record("create", overwrite, dry_run, FALSE, <<>>, fs,
                             [raised |-> r.raised, failed |-> r.failed,
                              result_paths |-> r.result_paths],
                             r.calls)
    /\ UNCHANGED <<structure, denied, pc, paths_to_delete>>

\* validate_folder_tree(base_path, structure)
Validate ==
    /\ pc = "idle"
    /\ last' = Record("validate", FALSE, FALSE, FALSE, <<>>, fs,
                      validate_folder_tree(fs, BasePath, structure), <<>>)
    /\ UNCHANGED <<structure, fs, denied, pc, paths_to_delete>>

\* generate_tree_summary(structure)
Render ==
    /\ pc = "idle"
    /\ last' = Record("render", FALSE, FALSE, FALSE, <<>>, fs,
                      [raised |-> FALSE, summary |-> generate_tree_summary(structure, <<>>, TRUE)],
                      <<>>)
    /\ UNCHANGED <<structure, fs, denied, pc, paths_to_delete>>

\* get_flat_path_map(base_path, structure, separator)
Flatten(separator) ==
    /\ pc = "idle"
    /\ last' = Record("flatten", FALSE, FALSE, FALSE, separator, fs,
                      [raised |-> FALSE,
                       flat_map |-> get_flat_path_map(BasePath, structure, separator, <<>>)],
                      <<>>)
    /\ UNCHANGED <<structure, fs, denied, pc, paths_to_delete>>

\* a slip: the deletion starts whatever confirm is
CleanupCallUngated(confirm) ==
    /\ pc = "idle"
    /\ \E sorted \in {SortByLenDesc(_collect(_resolve_path(BasePath), structure))} :
           /\ pc' = "cleanup"
           /\ paths_to_delete' = sorted
           /\ last' = Record("cleanup", FALSE, FALSE, confirm, <<>>, fs,
                             [raised |-> FALSE, returned |-> FALSE,
                              collected |-> sorted,
                              p |-> <<>>, attempted |-> "", ok |-> TRUE, at |-> fs],
                             <<>>)
    /\ UNCHANGED <<structure, fs, denied>>

\* cleanup_folder_tree(base_path, structure, confirm) up to the deletion
\* loop: the safety gate, _collect and the sort
CleanupCall(confirm) ==
    /\ pc = "idle"
    /\ IF ~confirm
       THEN /\ last' = Record("cleanup", FALSE, FALSE, confirm, <<>>, fs,
                              [raised |-> FALSE, returned |-> TRUE, collected |-> <<>>,
                               p |-> <<>>, attempted |-> "", ok |-> TRUE, at |-> fs],
                              <<>>)
            /\ UNCHANGED <<pc, paths_to_delete>>
       ELSE \E sorted \in {SortByLenDesc(_collect(_resolve_path(BasePath), structure))} :
                /\ pc' = "cleanup"
                /\ paths_to_delete' = sorted
                /\ last' = Record("cleanup", FALSE, FALSE, confirm, <<>>, fs,
                                  [raised |-> FALSE, returned |-> FALSE,
                                   collected |-> sorted,
                                   p |-> <<>>, attempted |-> "", ok |-> TRUE, at |-> fs],
                                  <<>>)
    /\ UNCHANGED <<structure, fs, denied>>

\* a slip: the OSError of a removal ends the deletion loop
CleanupStepAbort ==
    /\ pc = "cleanup"
    /\ paths_to_delete # <<>>
    /\ \E p \in {Head(paths_to_delete)} : \E r \in {RemoveOne(fs, p)} :
           /\ fs' = r.fs
           /\ last' = [last EXCEPT
                         !.out.p = p,
                         !.out.attempted = r.attempted,
                         !.out.ok = r.ok,
                         !.out.at = fs,
                         !.calls = IF r.attempted = "" THEN @
                                   ELSE Append(@, Call(r.attempted, p, r.ok))]
           /\ paths_to_delete' = IF r.ok THEN Tail(paths_to_delete) ELSE <<>>
    /\ UNCHANGED <<structure, denied, pc>>

\* one turn of the deletion loop of cleanup_folder_tree
CleanupStep ==
    /\ pc = "cleanup"
    /\ paths_to_delete # <<>>
    /\ \E p \in {Head(paths_to_delete)} : \E r \in {RemoveOne(fs, p)} :
           /\ fs' = r.fs
           /\ last' = [last EXCEPT
                         !.out.p = p,
                         !.out.attempted = r.attempted,
                         !.out.ok = r.ok,
                         !.out.at = fs,
                         !.calls = IF r.attempted = "" THEN @
                                   ELSE Append(@, Call(r.attempted, p, r.ok))]
    /\ paths_to_delete' = Tail(paths_to_delete)
    /\ UNCHANGED <<structure, denied, pc>>

\* the deletion loop has run out: cleanup_folder_tree returns
CleanupReturn ==
    /\ pc = "cleanup"
    /\ paths_to_delete = <<>>
    /\ pc' = "idle"
    /\ last' = [last EXCEPT !.out.returned = TRUE]
    /\ UNCHANGED <<structure, fs, denied, paths_to_delete>>

\* the operations that work on the filesystem
Next ==
    \/ \E overwrite \in BOOLEAN, dry_run \in BOOLEAN : Create(overwrite, dry_run)
    \/ Validate
    \/ \E confirm \in BOOLEAN : CleanupCall(confirm)
    \/ CleanupStep
    \/ CleanupReturn

\* the manager on any starting filesystem
Spec == Init /\ [][Next]_vars

\* any starting filesystem, on which the operating system refuses the
\* changes of one path
InitRefusing ==
    /\ structure \in Structures
    /\ fs \in InitFs
    /\ denied = {RefusedPath}
    /\ pc = "idle"
    /\ paths_to_delete = <<>>
    /\ last = Record("", FALSE, FALSE, FALSE, <<>>, fs, NoOut, <<>>)

SpecRefusing == InitRefusing /\ [][Next]_vars

\* nothing on disk yet, nothing refused
InitFresh ==
    /\ structure \in Structures
    /\ fs = <<>>
    /\ denied = {}
    /\ pc = "idle"
    /\ paths_to_delete = <<>>
    /\ last = Record("", FALSE, FALSE, FALSE, <<>>, fs, NoOut, <<>>)

Separators == {<<"_">>, <<".">>}

\* every operation of the module, the two pure ones included
NextAll ==
    \/ Next
    \/ Render
    \/ \E separator \in Separators : Flatten(separator)

\* the whole module on a fresh disk
SpecFresh == InitFresh /\ [][NextAll]_vars

----------------------------------------------------------------------------
(* What the claims speak of, read off the structure alone.                 *)

HasUnderscorePrefix(key) == key # <<>> /\ Head(key) = "_"

\* the key chains of the nodes of a structure in depth-first pre-order,
\* without the metadata keys and what lies under them
RECURSIVE NodeChains(_, _)
NodeChains(struct, chain) ==
    IF struct = <<>> THEN <<>>
    ELSE LET key == Head(struct).k
             value == Head(struct).v
         IN  (IF HasUnderscorePrefix(key) THEN <<>>
              ELSE <<Append(chain, key)>>
                   \o (IF value.t = "dict" THEN NodeChains(value.items, Append(chain, key))
                       ELSE <<>>))
             \o NodeChains(Tail(struct), chain)

Chains == NodeChains(structure, <<>>)

\* the paths the structure names under the base directory, in pre-order
SpecPaths == [i \in 1..Len(Chains) |-> Base \o Chains[i]]

IndexOf(seq, x) == CHOOSE i \in 1..Len(seq) : seq[i] = x

Elems(seq) == {seq[i] : i \in 1..Len(seq)}

HasMetaComponent(path) == \E i \in 1..Len(path) : HasUnderscorePrefix(path[i])

\* path p is the same on filesystems f and g
SameAt(f, g, p) ==
    /\ Exists(f, p) <=> Exists(g, p)
    /\ p \in DOMAIN f /\ p \in DOMAIN g => f[p] = g[p]

\* "_perms" is a key somewhere in the structure
RECURSIVE UsesPerms(_)
UsesPerms(struct) ==
    \E i \in 1..Len(struct) :
        \/ struct[i].k = KeyPerms
        \/ struct[i].v.t = "dict" /\ UsesPerms(struct[i].v.items)

\* the paths of a ResultTree in pre-order, and its keys at every level
RECURSIVE ResultPaths(_, _)
ResultPaths(result, at) ==
    IF result = <<>> THEN <<>>
    ELSE LET key == Head(result).k
             v == Head(result).v
         IN  (IF v.t = "dict"
              THEN <<Append(at, key)>> \o ResultPaths(v.items, Append(at, key))
              ELSE <<v.p>>)
             \o ResultPaths(Tail(result), at)

RECURSIVE ResultKeys(_)
ResultKeys(result) ==
    UNION {{result[i].k} \cup (IF result[i].v.t = "dict" THEN ResultKeys(result[i].v.items)
                               ELSE {})
           : i \in 1..Len(result)}

AfterCreate == last.op = "create"

----------------------------------------------------------------------------
(* C1: deletion ordering of cleanup_folder_tree.                           *)

\* the turn of the deletion loop just taken handed directory p to rmdir
RmdirTurn == last.op = "cleanup" /\ last.confirm /\ last.out.attempted = "rmdir"

CollectedBeneath(p) == {q \in Elems(last.out.collected) : IsBeneath(q, p)}

\* C1 as stated: when cleanup with confirm=true hands a directory to removal,
\* no collected path beneath it is still present.
C1_NoDescendantPresent ==
    RmdirTurn => \A q \in CollectedBeneath(last.out.p) : ~Exists(last.out.at, q)

\* C1 as amended: when cleanup with confirm=true hands a directory to
\* removal, every collected path beneath it has had its own turn before; one
\* that is still present is one whose own removal failed.
C1_DescendantsFirst ==
    RmdirTurn =>
        \A q \in CollectedBeneath(last.out.p) :
            /\ q \notin Elems(paths_to_delete)
            /\ Exists(last.out.at, q) =>
                  \E j \in 1..Len(last.calls) :
                      last.calls[j].path = q /\ ~last.calls[j].ok

\* a directory is handed to removal after a collected directory two levels
\* below it and the one between them were removed in this call
C1_Witness ==
    /\ RmdirTurn
    /\ last.out.ok
    /\ \E q \in CollectedBeneath(last.out.p) :
          /\ Len(q) = Len(last.out.p) + 2
          /\ Exists(last.before, q)
          /\ ~Exists(last.out.at, q)

----------------------------------------------------------------------------
(* C2: create twice with overwrite=false.                                  *)

PlainCreate(r) == r.op = "create" /\ ~r.overwrite /\ ~r.dry_run

\* C2: a create with overwrite=false that follows a successful one with the
\* same base path and structure returns the same ResultTree, writes no file
\* and leaves every file and directory as the first call left it.
C2_CreateTwice ==
    [][(PlainCreate(last) /\ ~last.out.raised /\ PlainCreate(last'))
          => /\ ~last'.out.raised
             /\ last'.out.result_paths = last.out.result_paths
             /\ \A j \in 1..Len(last'.calls) : last'.calls[j].op # "write"
             /\ fs' = fs]_vars

\* a create with overwrite=false found everything in place, among it a file
\* "a_a" with the content only an earlier create can have written
C2_Witness ==
    /\ PlainCreate(last)
    /\ ~last.out.raised
    /\ last.before = fs
    /\ \E i \in 1..Len(structure) :
          /\ structure[i].k = KeyAA
          /\ structure[i].v = StrValue("hello")
          /\ IsFile(fs, Join(Base, KeyAA))
          /\ fs[Join(Base, KeyAA)].content = "hello"

----------------------------------------------------------------------------
(* C3: create, then validate.                                              *)

\* C3: for a structure without "_perms" (the keys of one mapping are
\* distinct, so no two entries collide), a validate that follows a
\* successful create with dry_run=false returns True and raises nothing,
\* whatever the filesystem held before the create.
C3_RoundTrip ==
    [][(/\ ~UsesPerms(structure)
        /\ last.op = "create" /\ ~last.dry_run /\ ~last.out.raised
        /\ last'.op = "validate")
          => last'.out.returned /\ ~last'.out.raised]_vars

\* validate returned True for a structure without "_perms" that names
\* "a/a_a", a path only create can have made
C3_Witness ==
    /\ last.op = "validate"
    /\ last.out.returned
    /\ ~UsesPerms(structure)
    /\ Join(Join(Base, KeyA), KeyAA) \in Elems(SpecPaths)
    /\ Len(SpecPaths) = MaxNodes

----------------------------------------------------------------------------
(* C4: dry run.                                                            *)

\* C4: create with dry_run=true calls the backend not once (no mkdir, chmod
\* or write), leaves the filesystem as it was, raises nothing and returns
\* the ResultTree of every node of the structure, nested ones included.
C4_DryRunPure ==
    (AfterCreate /\ last.dry_run) =>
        /\ fs = last.before
        /\ last.calls = <<>>
        /\ ~last.out.raised
        /\ ResultPaths(last.out.result_paths, Base) = SpecPaths

\* a dry run of a structure nested three levels deep on a disk without the
\* base directory
C4_Witness ==
    /\ AfterCreate /\ last.dry_run
    /\ ~Exists(fs, Base)
    /\ \E i \in 1..Len(SpecPaths) : Len(SpecPaths[i]) = Len(Base) + 3

----------------------------------------------------------------------------
(* C5: the safety gate of cleanup.                                         *)

\* C5: cleanup with confirm=false calls the backend not once and leaves the
\* filesystem as it was.
C5_SafetyGate ==
    (last.op = "cleanup" /\ ~last.confirm) =>
        /\ fs = last.before
        /\ last.calls = <<>>
        /\ pc = "idle"
        /\ paths_to_delete = <<>>

\* cleanup with confirm=false returned while paths of the structure exist
C5_Witness ==
    /\ last.op = "cleanup" /\ ~last.confirm
    /\ \E i \in 1..Len(SpecPaths) : IsDir(fs, SpecPaths[i])
    /\ \E i \in 1..Len(SpecPaths) : IsFile(fs, SpecPaths[i])

----------------------------------------------------------------------------
(* C6: metadata keys.                                                      *)

LastOf(seq) == seq[Len(seq)]

\* C6: no key that begins with "_" becomes an entry of the filesystem, a
\* backend call, a key of the ResultTree, a line of the summary or a key or
\* path of the flat map, at any level, and nothing under such a key is
\* visited: create returns, the summary lists and the flat map holds the
\* other nodes and no more.
C6_MetadataExcluded ==
    /\ \A p \in DOMAIN fs : ~HasMetaComponent(p)
    /\ AfterCreate =>
          /\ \A key \in ResultKeys(last.out.result_paths) : ~HasUnderscorePrefix(key)
          /\ \A j \in 1..Len(last.calls) : ~HasMetaComponent(last.calls[j].path)
          /\ ~last.out.raised => ResultPaths(last.out.result_paths, Base) = SpecPaths
    /\ last.op = "render" =>
          /\ Len(last.out.summary) = Len(Chains)
          /\ \A i \in 1..Len(Chains) :
                /\ last.out.summary[i].key = LastOf(Chains[i])
                /\ Len(last.out.summary[i].indent) = Len(Chains[i]) - 1
    /\ last.op = "flatten" =>
          \A j \in 1..Len(last.out.flat_map) :
              /\ ~HasUnderscorePrefix(last.out.flat_map[j].k)
              /\ ~HasMetaComponent(last.out.flat_map[j].v)
              /\ last.out.flat_map[j].v \in Elems(SpecPaths)

\* create made directory "a" from a structure whose "a" holds a "_perms"
\* that is itself a mapping with a key
C6_Witness ==
    /\ AfterCreate /\ ~last.dry_run /\ ~last.out.raised
    /\ IsDir(fs, Join(Base, KeyA))
    /\ \E i \in 1..Len(structure) :
          /\ structure[i].k = KeyA
          /\ structure[i].v.t = "dict"
          /\ \E j \in 1..Len(structure[i].v.items) :
                /\ structure[i].v.items[j].k = KeyPerms
                /\ structure[i].v.items[j].v.t = "dict"
                /\ structure[i].v.items[j].v.items # <<>>

----------------------------------------------------------------------------
(* C7: validate reports every missing path.                                *)

IsMissing(p) == ~Exists(fs, p)

\* C7: when the base path exists, the missing list of validate is the list
\* of the paths of the structure that do not exist, in pre-order, nested
\* ones under a missing directory included; validate raises the validation
\* error iff the list is not empty and returns True otherwise.
C7_ValidateExhaustive ==
    (last.op = "validate" /\ Exists(fs, Base)) =>
        /\ last.out.missing = SelectSeq(SpecPaths, IsMissing)
        /\ last.out.count = Len(last.out.missing)
        /\ last.out.raised <=> last.out.missing # <<>>
        /\ last.out.raised => last.out.error = "ValidationError"
        /\ last.out.returned <=> last.out.missing = <<>>

\* validate reported a missing directory and the missing path inside it,
\* in this order, while the path before them exists
C7_Witness ==
    /\ last.op = "validate" /\ Exists(fs, Base)
    /\ Len(last.out.missing) = 2
    /\ IsBeneath(last.out.missing[2], last.out.missing[1])
    /\ Len(SpecPaths) = 3
    /\ Exists(fs, SpecPaths[1])

----------------------------------------------------------------------------
(* C8: create stops at the first failure and rolls nothing back.           *)

\* the place of the failing path in the traversal; the base directory
\* comes before every node
FailedAt == IF last.out.failed = Base THEN 0 ELSE IndexOf(SpecPaths, last.out.failed)

\* C8: when a backend call of create fails, the call raises, the failing
\* call is the last one it made, no path that comes later in the traversal
\* is created or written, and every path that comes earlier is in place.
C8_FailFastNoRollback ==
    (AfterCreate /\ last.out.raised) =>
        /\ last.out.failed \in {Base} \cup Elems(SpecPaths)
        /\ last.calls # <<>>
        /\ ~LastOf(last.calls).ok
        /\ \A j \in 1..(Len(last.calls) - 1) : last.calls[j].ok
        /\ \A i \in 1..Len(SpecPaths) :
              /\ i > FailedAt => SameAt(last.before, fs, SpecPaths[i])
              /\ i < FailedAt => Exists(fs, SpecPaths[i])
        /\ \A p \in DOMAIN last.before : Exists(fs, p)

\* create raised on the second of three nodes: the first one is new on
\* disk, the third one is absent
C8_Witness ==
    /\ AfterCreate /\ last.out.raised
    /\ Len(SpecPaths) = 3
    /\ FailedAt = 2
    /\ ~Exists(last.before, SpecPaths[1]) /\ Exists(fs, SpecPaths[1])
    /\ ~Exists(fs, SpecPaths[3])
    /\ ~IsBeneath(SpecPaths[3], SpecPaths[2])

----------------------------------------------------------------------------
(* C9: the flat map.                                                       *)

\* the ancestor keys of a node joined by the separator
RECURSIVE SynthKey(_, _)
SynthKey(chain, separator) ==
    IF Len(chain) = 1 THEN chain[1]
    ELSE SynthKey(SubSeq(chain, 1, Len(chain) - 1), separator)
         \o separator \o chain[Len(chain)]

NodeKey(i) == SynthKey(Chains[i], last.separator)

\* the last node of the traversal that synthesizes key
LastNodeWith(key) ==
    CHOOSE i \in 1..Len(Chains) :
        /\ NodeKey(i) = key
        /\ \A j \in (i + 1)..Len(Chains) : NodeKey(j) # key

\* C9 as stated: the flat map has one entry per node of the structure: as
\* many entries as nodes, and for each node its synthesized key mapped to
\* the base path joined with its chain of keys.
C9_OneEntryPerNode ==
    last.op = "flatten" =>
        /\ Len(last.out.flat_map) = Len(Chains)
        /\ \A i \in 1..Len(Chains) :
              \E j \in 1..Len(last.out.flat_map) :
                  /\ last.out.flat_map[j].k = NodeKey(i)
                  /\ last.out.flat_map[j].v = Base \o Chains[i]

\* C9 as amended: the flat map has one entry per synthesized key: its keys
\* are the synthesized keys of the nodes, each once, each mapped to the base
\* path joined with the chain of keys of the last node of the traversal
\* that synthesizes it; it has as many entries as nodes when no two nodes
\* synthesize the same key.
C9_OneEntryPerKey ==
    last.op = "flatten" =>
        /\ {last.out.flat_map[j].k : j \in 1..Len(last.out.flat_map)}
              = {NodeKey(i) : i \in 1..Len(Chains)}
        /\ \A j, k \in 1..Len(last.out.flat_map) :
              last.out.flat_map[j].k = last.out.flat_map[k].k => j = k
        /\ \A j \in 1..Len(last.out.flat_map) :
              last.out.flat_map[j].v = Base \o Chains[LastNodeWith(last.out.flat_map[j].k)]
        /\ (\A i, k \in 1..Len(Chains) : NodeKey(i) = NodeKey(k) => i = k)
              => Len(last.out.flat_map) = Len(Chains)

\* a flat map of three nodes, two of which synthesize the same key
C9_Witness ==
    /\ last.op = "flatten"
    /\ Len(Chains) = 3
    /\ Len(last.out.flat_map) = 2

----------------------------------------------------------------------------
(* C10: cleanup goes on after a failed removal.                            *)

\* a turn of the deletion loop has been taken
TurnTaken == last.out.p # <<>>

\* C10: cleanup with confirm=true never raises; each turn of the deletion
\* loop takes the next path of the sorted list whether or not the turn
\* before failed, attempts a removal iff the path exists, and removes no
\* more than that path; when cleanup returns, the list is used up and every
\* collected path that still exists is one whose removal was attempted.
C10_BestEffort ==
    (last.op = "cleanup" /\ last.confirm) =>
        /\ ~last.out.raised
        /\ \E n \in 0..Len(last.out.collected) :
              /\ paths_to_delete = SubSeq(last.out.collected, n + 1, Len(last.out.collected))
              /\ TurnTaken <=> n > 0
              /\ TurnTaken => last.out.p = last.out.collected[n]
        /\ TurnTaken =>
              /\ last.out.attempted # "" <=> Exists(last.out.at, last.out.p)
              /\ fs = IF last.out.attempted # "" /\ last.out.ok
                      THEN Drop(last.out.at, last.out.p)
                      ELSE last.out.at
        /\ last.out.returned =>
              /\ pc = "idle"
              /\ paths_to_delete = <<>>
              /\ \A q \in Elems(last.out.collected) :
                    Exists(fs, q) =>
                        \E j \in 1..Len(last.calls) :
                            last.calls[j].path = q /\ ~last.calls[j].ok

\* cleanup returned after a failed removal that was followed by a
\* successful one and by another failed one
C10_Witness ==
    /\ last.op = "cleanup" /\ last.confirm /\ last.out.returned
    /\ \E j, k, l \in 1..Len(last.calls) :
          /\ j < k /\ k < l
          /\ ~last.calls[j].ok /\ last.calls[k].ok /\ ~last.calls[l].ok

====
